---- MODULE Spec2Model ----
(***************************************************************************)
(* Ledger and payout state machine of the Yellow Money Heist application   *)
(* (src/app.py): the four tables User, Investment, Transaction, Payout,    *)
(* the request handlers that write them, and the background payout pass    *)
(* process_weekly_payouts driven by payout_scheduler.                      *)
(*                                                                         *)
(* Time is counted in days (Day == 1); datetime.utcnow() is a read of      *)
(* `clock`, which may advance between any two statements that are not      *)
(* inside one database commit.  Money is counted in hundredths of a        *)
(* currency unit, so the plan amount 5 is 500 and 5 * 0.01 is 5; for the   *)
(* four plan amounts the float products amount * 0.01 and amount * 0.05    *)
(* are the doubles printed 0.05 0.1 0.2 0.5 and 0.25 0.5 1.0 2.5.          *)
(*                                                                         *)
(* A table is the sequence of its committed rows; the primary key of a row *)
(* is its index.  Rows added to a SQLAlchemy session but not yet committed *)
(* live in the handler's local state and are lost when the process stops.  *)
(***************************************************************************)
EXTENDS Integers, Sequences, FiniteSets, TLC

\* ---------------------------------------------------------------- bounds
MaxWeeks == 2
MaxUsers == 2
MaxInv == 1
MaxWdr == 1
MaxInflight == 2
JourneyWeeks == 1

\* ------------------------------------------------------ program constants
Week == 7
Day == 1
PayoutPercent == 1
ReferralPercent == 5
Cent == 100

\* a NULL column: a datetime that is None, a string that is None
NULL == -1
None == "None"

\* the username and email fields of the registration form
RegInputs == {<<"a", "x">>, <<"b", "y">>, <<"b", "x">>}
\* the referral_code form field: empty, the first code handed out, or a string
\* that is no code (a code is eight characters of a uuid)
ReferralInputs == {"", "K1", "ZZ"}
\* POST /invest forms <<session user, plan, amount>>: the four plans, a plan
\* that does not exist, an amount that is not the plan's, amounts 0 and -5
InvestInputs == {<<1, "5", 5>>, <<2, "10", 10>>, <<1, "20", 20>>, <<2, "50", 50>>,
                 <<1, "7", 7>>, <<2, "5", 10>>, <<1, "10", 0>>, <<2, "50", -5>>}
\* the same forms <<plan, amount>>, for any session user
PlanInputs == {<<"5", 5>>, <<"10", 10>>, <<"20", 20>>, <<"50", 50>>,
               <<"7", 7>>, <<"5", 10>>, <<"10", 0>>, <<"50", -5>>}
\* the referral_code field as typed into the form, blanks included
FormReferralInputs == {"", "K1", "K2", " K2 "}
MethodInputs == {"visa", "mtn", "cash"}
WithdrawInputs == {0, 3}

VARIABLES
  clock,         \* datetime.utcnow(), in days
  users,         \* table user
  investments,   \* table investment
  transactions,  \* table transaction
  payouts,       \* table payout
  sched,         \* per payout pass: where process_weekly_payouts / payout_scheduler stands
  inflight,      \* requests that passed their check and have not yet written:
                 \* [uid, tid] of POST /payment after line 263,
                 \* [username, email, ref] of POST /register after line 137
  startup,       \* where the script stands on its way to app.run(), and whether the tables exist
  view           \* the context of the page rendered last by a GET handler

vars == <<clock, users, investments, transactions, payouts, sched, inflight, startup, view>>

Passes == {1, 2}

\* no page has been rendered yet
NoView == [page |-> "none"]

\* the script's position: db.create_all() of line 2058, the thread start of
\* line 2072, app.run() of line 2074, and then the server handling requests
Booting == [pc |-> "create_all", schema |-> FALSE]
Serving == [pc |-> "serving", schema |-> TRUE]

\* ----------------------------------------------------------- pure helpers
\* str.strip() of line 124, on the strings of FormReferralInputs: the blanks at
\* both ends are removed
strip(field) == CASE field = " K2 " -> "K2" [] OTHER -> field

Range(s) == {s[k] : k \in 1..Len(s)}

RemoveAt(s, k) == SubSeq(s, 1, k - 1) \o SubSeq(s, k + 1, Len(s))

RECURSIVE SumAmounts(_)
SumAmounts(s) == IF s = <<>> THEN 0 ELSE Head(s).amount + SumAmounts(Tail(s))

\* timedelta(days=7) added to a datetime
PlusWeek(t) == t + Week

\* a rate of 10% instead of 1%
calculate_weekly_payout_tenth(investment) == (investment.amount * PayoutPercent * 10) \div Cent

calculate_weekly_payout(investment) == (investment.amount * PayoutPercent) \div Cent

\* the bonus computed at the payout rate
referral_bonus_at_payout_rate(amount) == (amount * PayoutPercent) \div Cent

referral_bonus(amount) == (amount * ReferralPercent) \div Cent

\* valid_plans = {'5': 5, '10': 10, '20': 20, '50': 50}
valid_plans == [p \in {"5", "10", "20", "50"} |->
                  CASE p = "5" -> 5 [] p = "10" -> 10 [] p = "20" -> 20 [] p = "50" -> 50]

\* f'{prefix}-{secrets.token_hex(5).upper()}': a random token; the tokens are
\* named by order of first use, so a draw is either one already stored under
\* this prefix or the next unused one.
RefsOf(prefix) == {t.reference : t \in {x \in Range(transactions) : x.reference[1] = prefix}}
TokenDraws(prefix) == 1..(Cardinality(RefsOf(prefix)) + 1)

\* the reference column with no unique constraint: no INSERT is rejected
RefTakenNever(ref) == FALSE

\* Transaction.reference is unique=True: the store rejects a duplicate
RefTaken(ref) == \E k \in 1..Len(transactions) : transactions[k].reference = ref

\* str(uuid.uuid4())[:8].upper(): a random string.  The values are named by
\* order of first use, so a draw is a code already stored or the next unused one.
CodeNames == <<"K1", "K2", "K3", "K4">>
CodeDraws == {CodeNames[k] : k \in 1..(Len(users) + 1)}

\* last_payout = investment.last_payout or investment.start_date
DueSince(last_payout, start_date) == IF last_payout # NULL THEN last_payout ELSE start_date

\* the comparison written > instead of >=
IsDueStrict(now, last_payout, start_date) == now > PlusWeek(DueSince(last_payout, start_date))

\* the week counted from start_date even after a payout
IsDueFromStart(now, last_payout, start_date) == now >= PlusWeek(start_date)

\* datetime.utcnow() >= last_payout + timedelta(days=7)
IsDue(now, last_payout, start_date) == now >= PlusWeek(DueSince(last_payout, start_date))

\* Investment.query.filter_by(active=True).all(), in primary-key order
ActiveIds == {i \in 1..Len(investments) : investments[i].active}

RECURSIVE SortedSeq(_)
SortedSeq(S) == IF S = {} THEN <<>>
                ELSE LET m == CHOOSE x \in S : \A y \in S : x <= y
                     IN <<m>> \o SortedSeq(S \ {m})

\* ------------------------------------------------------------------ rows
UserRow(username, email, code, ref) ==
  [username |-> username, email |-> email, referral_code |-> code,
   referred_by |-> IF ref # "" THEN ref ELSE None, last_login |-> NULL]

\* an investment stored as already paid at its start
InvestmentRowPaid(uid, amount, plan, now) ==
  [user_id |-> uid, amount |-> amount, plan |-> plan, start_date |-> now,
   last_payout |-> now, active |-> TRUE]

\* an investment stored with its active flag cleared
InvestmentRowInactive(uid, amount, plan, now) ==
  [user_id |-> uid, amount |-> amount, plan |-> plan, start_date |-> now,
   last_payout |-> NULL, active |-> FALSE]

\* Investment(user_id, amount, plan) of lines 233-237 with the column defaults
\* of lines 41-44
InvestmentRow(uid, amount, plan, now) ==
  [user_id |-> uid, amount |-> amount, plan |-> plan, start_date |-> now,
   last_payout |-> NULL, active |-> TRUE]

TransactionRow(uid, amount, type, status, method, ref) ==
  [user_id |-> uid, amount |-> amount, type |-> type, status |-> status,
   payment_method |-> method, reference |-> ref, completed_at |-> NULL]

PayoutRow(iid, amount, now) == [investment_id |-> iid, amount |-> amount, payout_date |-> now]

\* two Payout rows for one due investment
NewPayoutsTwice(iid, amount, now) == <<PayoutRow(iid, amount, now), PayoutRow(iid, amount, now)>>

\* the rows one due investment adds to the payout table: one Payout
NewPayouts(iid, amount, now) == <<PayoutRow(iid, amount, now)>>

\* a lookup that never finds the referrer
ReferrerOfNobody(code) == 0

\* User.query.filter_by(referral_code=code).first()
ReferrerOf(code) ==
  LET S == {k \in 1..Len(users) : users[k].referral_code = code}
  IN IF code = None \/ S = {} THEN 0 ELSE CHOOSE k \in S : \A j \in S : k <= j

\* ------------------------------------------------------- scheduler state
\* pc: the statement the thread stands at; list, idx: the loop of line 81;
\* snap, fresh: the rows of the session; lp: the last_payout assigned at line 95
\* and not yet committed; wake: when the sleep of line 2068 ends; started: when
\* the pass began; log: the investments of the logger.info lines of this pass;
\* interrupted: the process stopped while the session held uncommitted writes
Idle == [pc |-> "off", list |-> <<>>, idx |-> 0, snap |-> <<>>, fresh |-> FALSE,
         lp |-> NULL, wake |-> 0, started |-> 0, log |-> <<>>, interrupted |-> FALSE]

Starting == [Idle EXCEPT !.pc = "scan"]

\* a user table the registration handler builds: A registered without a
\* referral code, then B with A's code
TwoUsers == <<UserRow("a", "x", "K1", ""), UserRow("b", "y", "K2", "K1")>>

\* the process has just started on a database that holds the two users
Init ==
  /\ clock = 0
  /\ users = TwoUsers
  /\ investments = <<>>
  /\ transactions = <<>>
  /\ payouts = <<>>
  /\ sched = [p \in Passes |-> IF p = 1 THEN Starting ELSE Idle]
  /\ inflight = <<>>
  /\ startup = Serving
  /\ view = NoView

\* the process has just started on a new database: db.create_all()
InitAccounts ==
  /\ clock = 0
  /\ users = <<>>
  /\ investments = <<>>
  /\ transactions = <<>>
  /\ payouts = <<>>
  /\ sched = [p \in Passes |-> IF p = 1 THEN Starting ELSE Idle]
  /\ inflight = <<>>
  /\ startup = Serving
  /\ view = NoView

\* two payout_scheduler threads: app.run(debug=True) re-executes the script in
\* the reloader's child process while the parent keeps its own daemon thread
InitTwoPasses ==
  /\ clock = 0
  /\ users = TwoUsers
  /\ investments = <<>>
  /\ transactions = <<>>
  /\ payouts = <<>>
  /\ sched = [p \in Passes |-> Starting]
  /\ inflight = <<>>
  /\ startup = Serving
  /\ view = NoView

\* ------------------------------------------------------------------ time
\* the instants at which the clock is read: each multiple of a week, and the
\* last instant before it
Instants == {t \in 0..(MaxWeeks * Week) : t % Week \in {0, Week - 1}}

Tick ==
  /\ \E t \in Instants : t > clock /\ clock' = t
  /\ UNCHANGED <<users, investments, transactions, payouts, sched, inflight, startup, view>>

\* the clock read a week later, for the runs that follow one investment from
\* its opening to its first payout
TickWeek ==
  /\ clock + Week <= JourneyWeeks * Week
  /\ clock' = clock + Week
  /\ UNCHANGED <<users, investments, transactions, payouts, sched, inflight, startup, view>>

\* ------------------------------------------------------- request handlers
\* POST /register: both availability checks, then the INSERT, which the unique
\* columns username, email and referral_code can still reject
Register(username, email, code, ref) ==
  /\ Len(users) < MaxUsers
  /\ ~ \E k \in 1..Len(users) : users[k].username = username
  /\ ~ \E k \in 1..Len(users) : users[k].email = email
  /\ ~ \E k \in 1..Len(users) : users[k].referral_code = code
  /\ users' = Append(users, UserRow(username, email, code, ref))
  /\ UNCHANGED <<clock, investments, transactions, payouts, sched, inflight, startup, view>>

\* POST /register, lines 126-137: the form passes both availability checks and
\* stands before its INSERT, while other requests run
RegisterCheck(username, email, ref) ==
  /\ Len(users) + Len(inflight) < MaxUsers
  /\ ~ \E k \in 1..Len(users) : users[k].username = username
  /\ ~ \E k \in 1..Len(users) : users[k].email = email
  /\ inflight' = Append(inflight, [username |-> username, email |-> email, ref |-> ref])
  /\ UNCHANGED <<clock, users, investments, transactions, payouts, sched, startup, view>>

\* the unique columns with referral_code left out
UniqueViolatedButCode(row) ==
  \E k \in 1..Len(users) :
     users[k].username = row.username \/ users[k].email = row.email

\* unique=True of username, email and referral_code (lines 27, 28 and 32): the
\* store raises IntegrityError on the INSERT of such a row
UniqueViolated(row) ==
  \E k \in 1..Len(users) :
     \/ users[k].username = row.username
     \/ users[k].email = row.email
     \/ users[k].referral_code = row.referral_code

\* the INSERT with no unique column in the store
RegisterCommitUnconstrained(k, code) ==
  LET rq == inflight[k]
  IN /\ inflight' = RemoveAt(inflight, k)
     /\ users' = Append(users, UserRow(rq.username, rq.email, code, rq.ref))
     /\ UNCHANGED <<clock, investments, transactions, payouts, sched, startup, view>>

\* POST /register, lines 139-153, for a form that passed the checks: the code
\* is drawn, the row added and committed, unless the store rejects the INSERT
RegisterCommit(k, code) ==
  LET rq == inflight[k]
      row == UserRow(rq.username, rq.email, code, rq.ref)
  IN /\ inflight' = RemoveAt(inflight, k)
     /\ users' = IF UniqueViolated(row) THEN users ELSE Append(users, row)
     /\ UNCHANGED <<clock, investments, transactions, payouts, sched, startup, view>>

\* registration refusing a referral code that no user holds
RegisterOutcomeKnownCodeOnly(username, email, code, field) ==
  IF \E k \in 1..Len(users) : users[k].username = username THEN users
  ELSE IF \E k \in 1..Len(users) : users[k].email = email THEN users
  ELSE IF strip(field) # "" /\ ReferrerOf(strip(field)) = 0 THEN users
  ELSE IF \E k \in 1..Len(users) : users[k].referral_code = code THEN users
  ELSE Append(users, UserRow(username, email, code, strip(field)))

\* the user table after one whole POST /register, lines 119-153, with the
\* referral_code field as typed: the field is stripped (line 124), the two
\* availability checks, the code drawn, the row stored with referred_by the
\* stripped field or None, the commit, which a stored code makes fail
RegisterOutcome(username, email, code, field) ==
  IF \E k \in 1..Len(users) : users[k].username = username THEN users
  ELSE IF \E k \in 1..Len(users) : users[k].email = email THEN users
  ELSE IF \E k \in 1..Len(users) : users[k].referral_code = code THEN users
  ELSE Append(users, UserRow(username, email, code, strip(field)))

\* POST /register served from its first line to its last
RegisterForm(username, email, code, field) ==
  /\ Len(users) < MaxUsers
  /\ users' = RegisterOutcome(username, email, code, field)
  /\ UNCHANGED <<clock, investments, transactions, payouts, sched, inflight, startup, view>>

\* POST /login with the name and password of user uid, lines 171-179; with
\* any other name or password nothing is written
Login(uid) ==
  /\ users' = [users EXCEPT ![uid].last_login = clock]
  /\ UNCHANGED <<clock, investments, transactions, payouts, sched, inflight, startup, view>>

\* POST /invest with the amount not compared with the plan's
InvestAnyAmount(n, uid, plan, amount, tok) ==
  /\ Len(investments) < n
  /\ plan \in DOMAIN valid_plans
  /\ ~ RefTaken(<<"INV", tok>>)
  /\ investments' = Append(investments, InvestmentRow(uid, amount * Cent, plan, clock))
  /\ transactions' = Append(transactions,
        TransactionRow(uid, amount * Cent, "deposit", "pending", "pending", <<"INV", tok>>))
  /\ UNCHANGED <<clock, users, payouts, sched, inflight, startup, view>>

\* POST /invest committing the Investment without its deposit Transaction
InvestWithoutDeposit(n, uid, plan, amount, tok) ==
  /\ Len(investments) < n
  /\ plan \in DOMAIN valid_plans
  /\ amount = valid_plans[plan]
  /\ investments' = Append(investments, InvestmentRow(uid, amount * Cent, plan, clock))
  /\ UNCHANGED <<clock, users, transactions, payouts, sched, inflight, startup, view>>

\* POST /invest
Invest(n, uid, plan, amount, tok) ==
  /\ Len(investments) < n
  /\ plan \in DOMAIN valid_plans
  /\ amount = valid_plans[plan]
  /\ ~ RefTaken(<<"INV", tok>>)
  /\ investments' = Append(investments, InvestmentRow(uid, amount * Cent, plan, clock))
  /\ transactions' = Append(transactions,
        TransactionRow(uid, amount * Cent, "deposit", "pending", "pending", <<"INV", tok>>))
  /\ UNCHANGED <<clock, users, payouts, sched, inflight, startup, view>>

\* the requests in flight are kept in the order of their transaction ids: which
\* of them the server took first is not part of the state
InsertByTid(s, r) ==
  LET n == Cardinality({k \in 1..Len(s) : s[k].tid <= r.tid})
  IN SubSeq(s, 1, n) \o <<r>> \o SubSeq(s, n + 1, Len(s))

\* /payment/<id>, lines 261-265: load the transaction and check it
PaymentLoad(uid, tid) ==
  /\ Len(inflight) < MaxInflight
  /\ transactions[tid].user_id = uid
  /\ transactions[tid].type = "deposit"
  /\ transactions[tid].status = "pending"
  /\ inflight' = InsertByTid(inflight, [uid |-> uid, tid |-> tid])
  /\ UNCHANGED <<clock, users, investments, transactions, payouts, sched, startup, view>>

\* a bonus row written whether or not a referrer was found
ReferralRowsUnresolved(uid, amount, tok) ==
  <<TransactionRow(ReferrerOf(users[uid].referred_by), referral_bonus(amount), "referral",
                   "completed", "system", <<"REF", tok>>)>>

\* the bonus row written with the column default of status
ReferralRowsPending(uid, amount, tok) ==
  LET r == ReferrerOf(users[uid].referred_by)
  IN IF users[uid].referred_by # None /\ r # 0
     THEN <<TransactionRow(r, referral_bonus(amount), "referral", "pending", "system",
                           <<"REF", tok>>)>>
     ELSE <<>>

\* the referral Transaction of lines 281-295, or none
ReferralRows(uid, amount, tok) ==
  LET r == ReferrerOf(users[uid].referred_by)
  IN IF users[uid].referred_by # None /\ r # 0
     THEN <<TransactionRow(r, referral_bonus(amount), "referral", "completed", "system",
                           <<"REF", tok>>)>>
     ELSE <<>>

\* the UPDATE with the completion timestamp left out
CompletedRowUndated(t, method, now) ==
  [t EXCEPT !.status = "completed", !.payment_method = method]

\* the UPDATE of lines 277-279
CompletedRow(t, method, now) ==
  [t EXCEPT !.status = "completed", !.payment_method = method, !.completed_at = now]

\* the deposit completed and committed, the referral Transaction left out
PaymentPostWithoutBonus(k, method, tok) ==
  LET rq == inflight[k]
      t == transactions[rq.tid]
  IN /\ inflight' = RemoveAt(inflight, k)
     /\ IF method \in {"visa", "mtn"}
        THEN transactions' = [transactions EXCEPT ![rq.tid] = CompletedRow(t, method, clock)]
        ELSE UNCHANGED transactions
     /\ UNCHANGED <<clock, users, investments, payouts, sched, startup, view>>

\* POST /payment/<id>, lines 267-301, for a request that passed line 263
PaymentPost(k, method, tok) ==
  LET rq == inflight[k]
      t == transactions[rq.tid]
      refs == ReferralRows(rq.uid, t.amount, tok)
  IN /\ inflight' = RemoveAt(inflight, k)
     /\ IF method \in {"visa", "mtn"} /\ (refs = <<>> \/ ~ RefTaken(<<"REF", tok>>))
        THEN transactions' = [transactions EXCEPT ![rq.tid] = CompletedRow(t, method, clock)] \o refs
        ELSE UNCHANGED transactions
     /\ UNCHANGED <<clock, users, investments, payouts, sched, startup, view>>

\* line 263 without the test of the status
PaymentAdmitsAnyStatus(uid, tid) ==
  /\ transactions[tid].user_id = uid
  /\ transactions[tid].type = "deposit"

\* line 263 without the test of the type
PaymentAdmitsAnyType(uid, tid) ==
  /\ transactions[tid].user_id = uid
  /\ transactions[tid].status = "pending"

\* line 263: the transaction is the caller's, a deposit, and pending
PaymentAdmits(uid, tid) ==
  /\ transactions[tid].user_id = uid
  /\ transactions[tid].type = "deposit"
  /\ transactions[tid].status = "pending"

\* lines 267-298 without the test of the payment method
PaymentOutcomeAnyMethod(uid, tid, method, tok) ==
  IF tid \notin 1..Len(transactions) THEN transactions
  ELSE IF ~ PaymentAdmits(uid, tid) THEN transactions
  ELSE LET t == transactions[tid]
           refs == ReferralRows(uid, t.amount, tok)
       IN IF refs # <<>> /\ RefTaken(<<"REF", tok>>) THEN transactions
          ELSE [transactions EXCEPT ![tid] = CompletedRow(t, method, clock)] \o refs

\* the transaction table after one whole POST /payment/<tid> by user uid, lines
\* 260-301: get_or_404, the check of line 263, the method check of line 270,
\* the writes, and the commit, which the unique reference column can reject
PaymentOutcome(uid, tid, method, tok) ==
  IF tid \notin 1..Len(transactions) THEN transactions
  ELSE IF ~ PaymentAdmits(uid, tid) THEN transactions
  ELSE IF method \notin {"visa", "mtn"} THEN transactions
  ELSE LET t == transactions[tid]
           refs == ReferralRows(uid, t.amount, tok)
       IN IF refs # <<>> /\ RefTaken(<<"REF", tok>>) THEN transactions
          ELSE [transactions EXCEPT ![tid] = CompletedRow(t, method, clock)] \o refs

\* POST /payment/<tid> served from its first line to its last with no other
\* request in between
Payment(uid, tid, method, tok) ==
  /\ transactions' = PaymentOutcome(uid, tid, method, tok)
  /\ UNCHANGED <<clock, users, investments, payouts, sched, inflight, startup, view>>

\* the withdrawals taken off the balance
BalanceInNet(uid, invs, pays, txs) ==
  SumAmounts(SelectSeq(pays, LAMBDA p : invs[p.investment_id].user_id = uid))
    + SumAmounts(SelectSeq(txs, LAMBDA t :
        t.user_id = uid /\ t.type = "referral" /\ t.status = "completed"))
    - SumAmounts(SelectSeq(txs, LAMBDA t : t.user_id = uid /\ t.type = "withdrawal"))

\* GET /withdraw, lines 335-349: total_payouts + total_referrals over the given
\* tables
BalanceIn(uid, invs, pays, txs) ==
  SumAmounts(SelectSeq(pays, LAMBDA p : invs[p.investment_id].user_id = uid))
    + SumAmounts(SelectSeq(txs, LAMBDA t :
        t.user_id = uid /\ t.type = "referral" /\ t.status = "completed"))

available_balance(uid) == BalanceIn(uid, investments, payouts, transactions)

\* POST /withdraw
Withdraw(uid, amount, method, tok) ==
  /\ Cardinality({k \in 1..Len(transactions) : transactions[k].type = "withdrawal"}) < MaxWdr
  /\ amount > 0
  /\ method \in {"visa", "mtn"}
  /\ ~ RefTaken(<<"WDR", tok>>)
  /\ transactions' = Append(transactions,
        TransactionRow(uid, amount * Cent, "withdrawal", "pending", method, <<"WDR", tok>>))
  /\ UNCHANGED <<clock, users, investments, payouts, sched, inflight, startup, view>>

\* a withdrawal refused when it exceeds the available balance
WithdrawOutcomeWithinBalance(uid, amount, method, tok) ==
  IF amount <= 0 THEN transactions
  ELSE IF method \notin {"visa", "mtn"} THEN transactions
  ELSE IF amount * Cent > available_balance(uid) THEN transactions
  ELSE IF RefTaken(<<"WDR", tok>>) THEN transactions
  ELSE Append(transactions,
         TransactionRow(uid, amount * Cent, "withdrawal", "pending", method, <<"WDR", tok>>))

\* the transaction table after one whole POST /withdraw by user uid, lines
\* 308-334: the amount test of line 313, the method test of line 317, the row
\* added, and the commit, which the unique reference column can reject
WithdrawOutcome(uid, amount, method, tok) ==
  IF amount <= 0 THEN transactions
  ELSE IF method \notin {"visa", "mtn"} THEN transactions
  ELSE IF RefTaken(<<"WDR", tok>>) THEN transactions
  ELSE Append(transactions,
         TransactionRow(uid, amount * Cent, "withdrawal", "pending", method, <<"WDR", tok>>))

\* POST /withdraw served from its first line to its last
WithdrawPost(uid, amount, method, tok) ==
  /\ Cardinality({k \in 1..Len(transactions) : transactions[k].type = "withdrawal"}) < MaxWdr
  /\ transactions' = WithdrawOutcome(uid, amount, method, tok)
  /\ UNCHANGED <<clock, users, investments, payouts, sched, inflight, startup, view>>

\* ----------------------------------------------------------- GET handlers
\* order_by(created_at.desc()).limit(n): created_at is set at the INSERT, so
\* the newest row is the one with the highest id
RECURSIVE NewestFirst(_, _)
NewestFirst(S, n) ==
  IF S = {} \/ n = 0 THEN <<>>
  ELSE LET m == CHOOSE x \in S : \A y \in S : y <= x
       IN <<m>> \o NewestFirst(S \ {m}, n - 1)

\* the context of lines 198-217: the user's active investments, their total,
\* the five most recent transactions and the number of referred users
DashboardView(uid) ==
  [page |-> "dashboard",
   user |-> uid,
   investments |-> {i \in ActiveIds : investments[i].user_id = uid},
   total_invested |-> SumAmounts(SelectSeq(investments, LAMBDA r : r.user_id = uid /\ r.active)),
   transactions |-> NewestFirst({k \in 1..Len(transactions) : transactions[k].user_id = uid}, 5),
   referral_count |-> Cardinality({k \in 1..Len(users) :
                                     users[k].referred_by = users[uid].referral_code})]

\* the dashboard also recording the visit in the user's row
DashboardStampingUser(uid) ==
  /\ view' = DashboardView(uid)
  /\ users' = [users EXCEPT ![uid].last_login = clock + 1]
  /\ UNCHANGED <<clock, investments, transactions, payouts, sched, inflight, startup>>

\* GET /dashboard
Dashboard(uid) ==
  /\ view' = DashboardView(uid)
  /\ UNCHANGED <<clock, users, investments, transactions, payouts, sched, inflight, startup>>

\* GET /withdraw, lines 335-351
WithdrawGet(uid) ==
  /\ view' = [page |-> "withdraw", user |-> uid, available_balance |-> available_balance(uid)]
  /\ UNCHANGED <<clock, users, investments, transactions, payouts, sched, inflight, startup>>

\* the context of lines 366-382: the referred users, the completed referral
\* Transactions of the user and their total
ReferralsView(uid) ==
  LET earned == {k \in 1..Len(transactions) :
                   /\ transactions[k].user_id = uid
                   /\ transactions[k].type = "referral"
                   /\ transactions[k].status = "completed"}
  IN [page |-> "referrals",
      user |-> uid,
      referred_users |-> {k \in 1..Len(users) : users[k].referred_by = users[uid].referral_code},
      referral_earnings |-> earned,
      total_earned |-> SumAmounts(SelectSeq(transactions, LAMBDA t :
                         t.user_id = uid /\ t.type = "referral" /\ t.status = "completed"))]

\* GET /referrals
Referrals(uid) ==
  /\ view' = ReferralsView(uid)
  /\ UNCHANGED <<clock, users, investments, transactions, payouts, sched, inflight, startup>>

\* ---------------------------------------------------------- payout pass
\* line 80: the query, whose rows stay in the session until the next commit
PassScan(p) ==
  /\ sched[p].pc = "scan"
  /\ sched' = [sched EXCEPT ![p] =
        [@ EXCEPT !.pc = "check", !.list = SortedSeq(ActiveIds), !.idx = 1,
                  !.started = clock, !.interrupted = FALSE,
                  !.snap = [i \in 1..Len(investments) |-> investments[i].last_payout],
                  !.fresh = TRUE, !.log = <<>>]]
  /\ UNCHANGED <<clock, users, investments, transactions, payouts, inflight, startup, view>>

\* investment.last_payout as the session sees it: the row loaded by the query,
\* or, once a commit has expired the session's rows, the row reloaded now
SeenLastPayout(p, i) == IF sched[p].fresh THEN sched[p].snap[i] ELSE investments[i].last_payout

\* lines 83-84: the due test of the next investment of the list
PassCheck(p) ==
  LET s == sched[p]
      i == s.list[s.idx]
  IN /\ s.pc = "check"
     /\ s.idx <= Len(s.list)
     /\ sched' = [sched EXCEPT ![p] =
          IF IsDue(clock, SeenLastPayout(p, i), investments[i].start_date)
          THEN [s EXCEPT !.pc = "write"]
          ELSE [s EXCEPT !.idx = s.idx + 1]]
     /\ UNCHANGED <<clock, users, investments, transactions, payouts, inflight, startup, view>>

\* last_payout advanced by one period instead of set to the current time
PassWriteOnSchedule(p) ==
  LET i == sched[p].list[sched[p].idx]
  IN /\ sched[p].pc = "write"
     /\ sched' = [sched EXCEPT ![p] =
          [@ EXCEPT !.pc = "commit",
                    !.lp = PlusWeek(DueSince(SeenLastPayout(p, i), investments[i].start_date))]]
     /\ UNCHANGED <<clock, users, investments, transactions, payouts, inflight, startup, view>>

\* lines 85-105: the Payout, the new last_payout and the Transaction, in the session
PassWrite(p) ==
  /\ sched[p].pc = "write"
  /\ sched' = [sched EXCEPT ![p] = [@ EXCEPT !.pc = "commit", !.lp = clock]]
  /\ UNCHANGED <<clock, users, investments, transactions, payouts, inflight, startup, view>>

\* the Payout and last_payout committed on their own, the Transaction left out
PassCommitWithoutTransaction(p, tok) ==
  LET s == sched[p]
      i == s.list[s.idx]
      amount == calculate_weekly_payout(investments[i])
  IN /\ s.pc = "commit"
     /\ ~ RefTaken(<<"PYT", tok>>)
     /\ payouts' = payouts \o NewPayouts(i, amount, clock)
     /\ investments' = [investments EXCEPT ![i].last_payout = s.lp]
     /\ sched' = [sched EXCEPT ![p] =
          [s EXCEPT !.pc = "check", !.idx = s.idx + 1, !.fresh = FALSE, !.snap = <<>>,
                    !.lp = NULL, !.log = Append(s.log, i)]]
     /\ UNCHANGED <<clock, users, transactions, inflight, startup, view>>

\* the commit with the payout added to the invested amount
PassCommitCompounding(p, tok) ==
  LET s == sched[p]
      i == s.list[s.idx]
      amount == calculate_weekly_payout(investments[i])
  IN /\ s.pc = "commit"
     /\ ~ RefTaken(<<"PYT", tok>>)
     /\ payouts' = payouts \o NewPayouts(i, amount, clock)
     /\ investments' = [investments EXCEPT ![i].last_payout = s.lp,
                                           ![i].amount = investments[i].amount + amount]
     /\ transactions' = Append(transactions,
          TransactionRow(investments[i].user_id, amount, "payout", "completed", None,
                         <<"PYT", tok>>))
     /\ sched' = [sched EXCEPT ![p] =
          [s EXCEPT !.pc = "check", !.idx = s.idx + 1, !.fresh = FALSE, !.snap = <<>>,
                    !.lp = NULL,
                    !.log = Append(s.log, i)]]
     /\ UNCHANGED <<clock, users, inflight, startup, view>>

\* line 107: the flush (column defaults are read now) and the commit
PassCommit(p, tok) ==
  LET s == sched[p]
      i == s.list[s.idx]
      amount == calculate_weekly_payout(investments[i])
  IN /\ s.pc = "commit"
     /\ ~ RefTaken(<<"PYT", tok>>)
     /\ payouts' = payouts \o NewPayouts(i, amount, clock)
     /\ investments' = [investments EXCEPT ![i].last_payout = s.lp]
     /\ transactions' = Append(transactions,
          TransactionRow(investments[i].user_id, amount, "payout", "completed", None,
                         <<"PYT", tok>>))
     /\ sched' = [sched EXCEPT ![p] =
          [s EXCEPT !.pc = "check", !.idx = s.idx + 1, !.fresh = FALSE, !.snap = <<>>,
                    !.lp = NULL,
                    !.log = Append(s.log, i)]]
     /\ UNCHANGED <<clock, users, inflight, startup, view>>

\* the failure undoing the Payouts the pass committed before it
PassCommitErrorUndoingThePass(p, tok) ==
  /\ sched[p].pc = "commit"
  /\ RefTaken(<<"PYT", tok>>)
  /\ payouts' = SubSeq(payouts, 1, Len(payouts) - Len(sched[p].log))
  /\ sched' = [sched EXCEPT ![p] = [Idle EXCEPT !.pc = "dead"]]
  /\ UNCHANGED <<clock, users, investments, transactions, inflight, startup, view>>

\* line 107 raising (the reference is already stored): nothing catches it in
\* process_weekly_payouts or in payout_scheduler, so the thread ends
PassCommitError(p, tok) ==
  /\ sched[p].pc = "commit"
  /\ RefTaken(<<"PYT", tok>>)
  /\ sched' = [sched EXCEPT ![p] = [Idle EXCEPT !.pc = "dead"]]
  /\ UNCHANGED <<clock, users, investments, transactions, payouts, inflight, startup, view>>

\* the loop of line 81 ends; line 2068: sleep(86400)
PassDone(p) ==
  /\ sched[p].pc = "check"
  /\ sched[p].idx > Len(sched[p].list)
  /\ sched' = [sched EXCEPT ![p] = [Idle EXCEPT !.pc = "sleep", !.wake = clock + Day]]
  /\ UNCHANGED <<clock, users, investments, transactions, payouts, inflight, startup, view>>

\* the sleep returns; line 2067 again
Wake(p) ==
  /\ sched[p].pc = "sleep"
  /\ clock >= sched[p].wake
  /\ sched' = [sched EXCEPT ![p] = Starting]
  /\ UNCHANGED <<clock, users, investments, transactions, payouts, inflight, startup, view>>

\* the process stops at any point and is started again (lines 2065-2072):
\* sessions and threads are gone, the committed tables stay
CrashRestart ==
  /\ sched' = [p \in Passes |->
        IF sched[p].pc = "off" THEN Idle
        ELSE [Starting EXCEPT !.interrupted = sched[p].pc \in {"write", "commit"}]]
  /\ inflight' = <<>>
  /\ UNCHANGED <<clock, users, investments, transactions, payouts, startup, view>>

Uids == 1..Len(users)

DoRegister == \E f \in RegInputs, c \in CodeDraws, r \in ReferralInputs : Register(f[1], f[2], c, r)

DoRegisterCheck == \E f \in RegInputs, r \in ReferralInputs : RegisterCheck(f[1], f[2], r)

DoRegisterCommit == \E k \in 1..Len(inflight), c \in CodeDraws : RegisterCommit(k, c)

DoLogin == \E uid \in Uids : Login(uid)

DoRegisterForm ==
  \E f \in RegInputs, c \in CodeDraws, r \in FormReferralInputs : RegisterForm(f[1], f[2], c, r)

DoInvest(n) ==
  \E f \in InvestInputs, tok \in TokenDraws("INV") :
     f[1] \in Uids /\ Invest(n, f[1], f[2], f[3], tok)

DoInvestAs(n) ==
  \E uid \in Uids, f \in PlanInputs, tok \in TokenDraws("INV") : Invest(n, uid, f[1], f[2], tok)

DoPaymentLoad == \E uid \in Uids, tid \in 1..Len(transactions) : PaymentLoad(uid, tid)

DoPaymentPost ==
  \E k \in 1..Len(inflight), m \in MethodInputs, tok \in TokenDraws("REF") : PaymentPost(k, m, tok)

DoPayment ==
  \E uid \in Uids, tid \in 1..(Len(transactions) + 1), m \in MethodInputs,
     tok \in TokenDraws("REF") : Payment(uid, tid, m, tok)

\* the payment form of a deposit, posted by any logged-in user
DoPaymentOfDeposit ==
  \E uid \in Uids, tid \in {k \in 1..Len(transactions) : transactions[k].type = "deposit"},
     m \in MethodInputs, tok \in TokenDraws("REF") : Payment(uid, tid, m, tok)

DoWithdraw ==
  \E uid \in Uids, a \in WithdrawInputs, m \in MethodInputs, tok \in TokenDraws("WDR") :
     Withdraw(uid, a, m, tok)

DoWithdrawPost ==
  \E uid \in Uids, a \in WithdrawInputs, m \in MethodInputs, tok \in TokenDraws("WDR") :
     WithdrawPost(uid, a, m, tok)

DoDashboard == \E uid \in Uids : Dashboard(uid)

DoWithdrawGet == \E uid \in Uids : WithdrawGet(uid)

DoReferrals == \E uid \in Uids : Referrals(uid)

Pass(p) ==
  \/ PassScan(p)
  \/ PassCheck(p)
  \/ PassWrite(p)
  \/ \E tok \in TokenDraws("PYT") : PassCommit(p, tok)
  \/ \E tok \in TokenDraws("PYT") : PassCommitError(p, tok)
  \/ PassDone(p)
  \/ Wake(p)

\* the application: one scheduler thread and concurrent requests
Next ==
  \/ Tick
  \/ DoInvest(MaxInv)
  \/ DoPaymentLoad
  \/ DoPaymentPost
  \/ Pass(1)
  \/ CrashRestart

Spec == Init /\ [][Next]_vars

\* the payout engine: the scheduler thread and the handler that opens investments
NextEngine ==
  \/ Tick
  \/ DoInvest(MaxInv)
  \/ Pass(1)
  \/ CrashRestart

SpecEngine == Init /\ [][NextEngine]_vars

\* the payout engine with one investment more to scan
NextCycle ==
  \/ Tick
  \/ DoInvest(MaxInv + 1)
  \/ Pass(1)
  \/ CrashRestart

SpecCycle == Init /\ [][NextCycle]_vars

\* the deposit handlers: concurrent POST /payment requests on two investments,
\* all within one reading of the clock (the handlers only stamp it on the rows)
NextPayments ==
  \/ DoInvest(MaxInv + 1)
  \/ DoPaymentLoad
  \/ DoPaymentPost
  \/ CrashRestart

SpecPayments == Init /\ [][NextPayments]_vars

\* registration, investment and payment, one request at a time
NextAccounts ==
  \/ DoRegister
  \/ DoInvestAs(MaxInv)
  \/ DoPayment

SpecAccounts == InitAccounts /\ [][NextAccounts]_vars

\* registration with any referral code field, investment and payment, one
\* request at a time, on a new database
NextReferrals ==
  \/ DoRegisterForm
  \/ DoInvestAs(MaxInv)
  \/ DoPaymentOfDeposit

SpecReferrals == InitAccounts /\ [][NextReferrals]_vars

\* registrations that overlap, and logins, on a new database
NextRegistrations ==
  \/ TickWeek
  \/ DoRegisterCheck
  \/ DoRegisterCommit
  \/ DoLogin

SpecRegistrations == InitAccounts /\ [][NextRegistrations]_vars

\* the payout pass when no commit is rejected by the store
PassNoStoreError(p) ==
  \/ PassScan(p)
  \/ PassCheck(p)
  \/ PassWrite(p)
  \/ \E tok \in TokenDraws("PYT") : PassCommit(p, tok)
  \/ PassDone(p)
  \/ Wake(p)

\* --------------------------------------------------------------- startup
\* the script is run on a machine with no database file yet
InitStartup ==
  /\ clock = 0
  /\ users = <<>>
  /\ investments = <<>>
  /\ transactions = <<>>
  /\ payouts = <<>>
  /\ sched = [p \in Passes |-> Idle]
  /\ inflight = <<>>
  /\ startup = Booting
  /\ view = NoView

\* the script going on to the thread start with no table created
CreateAllSkipped ==
  /\ startup.pc = "create_all"
  /\ startup' = [startup EXCEPT !.pc = "start_thread"]
  /\ UNCHANGED <<clock, users, investments, transactions, payouts, sched, inflight, view>>

\* lines 2056-2058, at module level: db.create_all() returns with the tables
\* in the store (those that exist already are left as they are)
CreateAll ==
  /\ startup.pc = "create_all"
  /\ startup' = [pc |-> "start_thread", schema |-> TRUE]
  /\ UNCHANGED <<clock, users, investments, transactions, payouts, sched, inflight, view>>

\* lines 2070-2072: the daemon thread running payout_scheduler is started
StartThread ==
  /\ startup.pc = "start_thread"
  /\ startup' = [startup EXCEPT !.pc = "app_run"]
  /\ sched' = [sched EXCEPT ![1] = Starting]
  /\ UNCHANGED <<clock, users, investments, transactions, payouts, inflight, view>>

\* line 2074: app.run() binds the port; requests are handled from here on
AppRun ==
  /\ startup.pc = "app_run"
  /\ startup' = [startup EXCEPT !.pc = "serving"]
  /\ UNCHANGED <<clock, users, investments, transactions, payouts, sched, inflight, view>>

\* the process stops and the script is run again from its first line: threads
\* and sessions are gone, the database file stays
Rerun ==
  /\ startup' = [startup EXCEPT !.pc = "create_all"]
  /\ sched' = [p \in Passes |-> Idle]
  /\ inflight' = <<>>
  /\ UNCHANGED <<clock, users, investments, transactions, payouts, view>>

\* a request reaches a handler only while app.run() is serving
Served(request) == startup.pc = "serving" /\ request

\* the script from its first line on: the tables, the thread, the server, and
\* then registrations, investments and the payout passes of thread 1
NextStartup ==
  \/ CreateAll
  \/ StartThread
  \/ AppRun
  \/ Rerun
  \/ TickWeek
  \/ Served(DoRegister)
  \/ Served(DoInvestAs(MaxInv))
  \/ PassNoStoreError(1)

SpecStartup == InitStartup /\ [][NextStartup]_vars

\* one investment followed from its opening to its first payout: investment,
\* payment and the scheduler thread, one request at a time, in the runs in
\* which the store rejects no commit of the pass
NextJourney ==
  \/ TickWeek
  \/ DoInvest(MaxInv)
  \/ DoPaymentOfDeposit
  \/ PassNoStoreError(1)

SpecJourney == Init /\ [][NextJourney]_vars

\* the database at the end of such a run: B opened a plan of 10 at day 0 and
\* paid it by visa, A got the bonus, and the pass of day 7 has paid B and
\* reached the end of its loop
JourneyEnd ==
  /\ clock = Week
  /\ users = TwoUsers
  /\ investments = <<[InvestmentRow(2, 10 * Cent, "10", 0) EXCEPT !.last_payout = Week]>>
  /\ transactions =
       <<CompletedRow(TransactionRow(2, 10 * Cent, "deposit", "pending", "pending", <<"INV", 1>>),
                      "visa", 0),
         TransactionRow(1, referral_bonus(10 * Cent), "referral", "completed", "system", <<"REF", 1>>),
         TransactionRow(2, 10, "payout", "completed", None, <<"PYT", 1>>)>>
  /\ payouts = <<PayoutRow(1, 10, Week)>>
  /\ sched = [p \in Passes |->
        IF p = 1 THEN [Starting EXCEPT !.pc = "check", !.list = <<1>>, !.idx = 2,
                                       !.started = Week, !.log = <<1>>]
        ELSE Idle]
  /\ inflight = <<>>
  /\ startup = Serving
  /\ view = NoView

\* the ledger from there on: further investments, payments and withdrawal
\* requests, one request at a time
NextLedger ==
  \/ DoInvest(MaxInv + 1)
  \/ DoPaymentOfDeposit
  \/ DoWithdraw

SpecLedger == JourneyEnd /\ [][NextLedger]_vars

\* withdrawal requests of every form, accepted or not, on the ledger after the
\* first cycle, with further investments and payments
NextWithdrawals ==
  \/ DoInvest(MaxInv + 1)
  \/ DoPaymentOfDeposit
  \/ DoWithdrawPost

SpecWithdrawals == JourneyEnd /\ [][NextWithdrawals]_vars

\* investments and payments after the first cycle, with the pages that read
\* the ledger
NextReads ==
  \/ DoInvest(MaxInv + 1)
  \/ DoPaymentOfDeposit
  \/ DoDashboard
  \/ DoWithdrawGet
  \/ DoReferrals

SpecReads == JourneyEnd /\ [][NextReads]_vars

\* the scheduler thread over two investments, week by week, with the commits
\* the store rejects
NextFailure ==
  \/ TickWeek
  \/ DoInvest(MaxInv + 1)
  \/ Pass(1)

SpecFailure == Init /\ [][NextFailure]_vars

\* two scheduler threads
NextTwoPasses ==
  \/ Tick
  \/ DoInvest(MaxInv)
  \/ \E p \in Passes : Pass(p)

SpecTwoPasses == InitTwoPasses /\ [][NextTwoPasses]_vars

\* ======================================================== properties
PayoutIdsOf(i) == {k \in 1..Len(payouts) : payouts[k].investment_id = i}

TransactionIds(type) == {k \in 1..Len(transactions) : transactions[k].type = type}

\* invest() adds the Investment and its deposit Transaction in one commit and
\* nothing else adds either: the i-th investment belongs to the i-th deposit
DepositOf(i) == SortedSeq(TransactionIds("deposit"))[i]

\* the referrer a deposit's bonus goes to, 0 when there is none
ReferrerOfDeposit(tid) == ReferrerOf(users[transactions[tid].user_id].referred_by)

\* C1: for any interleaving of two concurrently running payout passes, any two
\* Payouts of the same investment are at least 7 days apart.
C1_PayoutsAWeekApart ==
  \A j, k \in 1..Len(payouts) :
     (j < k /\ payouts[j].investment_id = payouts[k].investment_id)
        => payouts[k].payout_date - payouts[j].payout_date >= Week

\* C2: however several POST /payment requests for the same pending deposit
\* interleave, at most one referral Transaction is created for that deposit: a
\* referrer never owns more referral Transactions than there are completed
\* deposits of the users referred by them.
C2_OneReferralPerDeposit ==
  \A r \in Uids :
     Cardinality({k \in TransactionIds("referral") : transactions[k].user_id = r})
       <= Cardinality({d \in TransactionIds("deposit") :
                         transactions[d].status = "completed" /\ ReferrerOfDeposit(d) = r})

\* C3: no Payout exists for an investment whose deposit transaction is still
\* pending.
C3_NoPayoutWhileDepositPending ==
  \A k \in 1..Len(payouts) :
     transactions[DepositOf(payouts[k].investment_id)].status = "completed"

\* C4: in every committed state, also after the process stopped inside a payout
\* pass, the three payout writes are all-or-nothing: the Payouts of a user's
\* investments and the user's completed payout Transactions match one to one in
\* amount, and an investment's last_payout is set exactly when it has a Payout.
C4_PayoutWritesAtomic ==
  /\ \A u \in Uids, a \in {calculate_weekly_payout(investments[i]) : i \in 1..Len(investments)} :
        Cardinality({k \in 1..Len(payouts) :
                       investments[payouts[k].investment_id].user_id = u /\ payouts[k].amount = a})
          = Cardinality({k \in TransactionIds("payout") :
                           /\ transactions[k].user_id = u
                           /\ transactions[k].amount = a
                           /\ transactions[k].status = "completed"})
  /\ \A k \in TransactionIds("payout") :
        \E j \in 1..Len(payouts) :
           /\ investments[payouts[j].investment_id].user_id = transactions[k].user_id
           /\ payouts[j].amount = transactions[k].amount
  /\ \A i \in 1..Len(investments) :
        (investments[i].last_payout # NULL) <=> (PayoutIdsOf(i) # {})

\* the process stopped while a pass held the uncommitted writes of a further
\* payout of an investment that already has a committed one
C4_Witness ==
  /\ sched[1].interrupted
  /\ \E i \in 1..Len(investments) : PayoutIdsOf(i) # {} /\ IsDue(clock, investments[i].last_payout, investments[i].start_date)

\* a step that completes a pending deposit whose owner has a referrer
CompletesReferredDeposit(tid) ==
  /\ transactions[tid].type = "deposit"
  /\ transactions[tid].status = "pending"
  /\ transactions'[tid].status = "completed"
  /\ ReferrerOfDeposit(tid) # 0

\* the rows a step adds to the transaction table
AddedTransactions == SubSeq(transactions', Len(transactions) + 1, Len(transactions'))

IsBonusFor(row, tid) ==
  /\ row.type = "referral"
  /\ row.status = "completed"
  /\ row.user_id = ReferrerOfDeposit(tid)
  /\ row.amount * Cent = transactions[tid].amount * ReferralPercent

\* C5: deposit completion and referral-bonus emission are one atomic unit: the
\* step that turns a referred user's deposit from pending to completed adds
\* its referral Transaction, a referral Transaction is only ever added by a
\* step that leaves its deposit completed, and in no state is there a
\* referral Transaction without a completed deposit it is the bonus of.
C5_DepositAndBonusAtomic ==
  /\ [](\A k \in TransactionIds("referral") :
          \E d \in TransactionIds("deposit") :
             transactions[d].status = "completed" /\ IsBonusFor(transactions[k], d))
  /\ [][/\ \A tid \in 1..Len(transactions) :
             CompletesReferredDeposit(tid) =>
                /\ Len(AddedTransactions) = 1
                /\ IsBonusFor(AddedTransactions[1], tid)
        /\ \A n \in 1..Len(AddedTransactions) :
             AddedTransactions[n].type = "referral" =>
                \E tid \in TransactionIds("deposit") :
                   /\ transactions'[tid].status = "completed"
                   /\ IsBonusFor(AddedTransactions[n], tid)]_vars

\* the deposit of the referred user B is completed and A owns its bonus
C5_Witness ==
  \E d \in TransactionIds("deposit"), k \in TransactionIds("referral") :
     /\ transactions[d].status = "completed"
     /\ transactions[d].user_id = 2
     /\ transactions[k].user_id = 1
     /\ IsBonusFor(transactions[k], d)

\* C6: when processing one due investment fails in a payout cycle, the cycle
\* goes on with the other investments and the scheduler retries on its next
\* cycle: no store error ends the scheduler thread.
C6_CycleSurvivesStoreError == \A p \in Passes : sched[p].pc # "dead"

\* C7: a payout cycle run again at the same `now` as the cycle that just paid
\* an investment creates no second Payout, no second payout Transaction and no
\* change of last_payout for it: while last_payout = now, no step adds a Payout
\* of the investment or changes its last_payout, and each payout Transaction a
\* step adds comes with the Payout of another investment.
C7_SameNowPaysOnce ==
  [][\A i \in 1..Len(investments) :
        investments[i].last_payout = clock =>
           /\ Cardinality({k \in 1..Len(payouts') : payouts'[k].investment_id = i})
                = Cardinality(PayoutIdsOf(i))
           /\ investments'[i].last_payout = investments[i].last_payout
           /\ Cardinality({k \in 1..Len(transactions') : transactions'[k].type = "payout"})
                 - Cardinality(TransactionIds("payout"))
                = Cardinality({k \in 1..Len(payouts') : payouts'[k].investment_id # i})
                    - Cardinality({k \in 1..Len(payouts) : payouts[k].investment_id # i})]_vars

\* a pass that started at the instant an investment was last paid has tested
\* that investment and paid nothing
C7_Witness ==
  /\ sched[1].pc = "check"
  /\ sched[1].idx = 2
  /\ sched[1].log = <<>>
  /\ sched[1].started = clock
  /\ investments[sched[1].list[1]].last_payout = clock
  /\ Cardinality(PayoutIdsOf(sched[1].list[1])) = 1

\* a step of the due test of lines 83-84 by pass p
CheckStep(p) ==
  /\ sched[p].pc = "check"
  /\ sched[p].idx <= Len(sched[p].list)
  /\ \/ sched'[p].pc = "write"
     \/ sched'[p].pc = "check" /\ sched'[p].idx = sched[p].idx + 1

\* C8: an active investment is due in a payout cycle exactly when
\* now >= (last_payout if set, else start_date) + 7 days; no first Payout is
\* made before start_date + 7 days.
C8_DueExactlyAfterAWeek ==
  /\ [](\A k \in 1..Len(payouts) :
          payouts[k].payout_date >= investments[payouts[k].investment_id].start_date + Week)
  /\ [][CheckStep(1) =>
          LET i == sched[1].list[sched[1].idx]
              since == IF investments[i].last_payout = NULL
                       THEN investments[i].start_date ELSE investments[i].last_payout
          IN (sched'[1].pc = "write") <=> (clock >= since + Week)]_vars

\* an investment without a Payout found due at start_date + 7 days exactly
C8_Witness ==
  /\ sched[1].pc = "write"
  /\ LET i == sched[1].list[sched[1].idx]
     IN /\ investments[i].last_payout = NULL
        /\ clock = investments[i].start_date + Week

\* C9: missed cycles are not backfilled: however long an investment has been
\* due, one payout pass gives it exactly one Payout, and its last_payout
\* becomes a time of that pass (not the end of a missed window), so that the
\* next payout is due 7 days after that pass.
C9_NoBackfill ==
  /\ [](\A k \in 1..Len(sched[1].log) :
          LET i == sched[1].log[k]
          IN /\ \A j \in 1..Len(sched[1].log) : sched[1].log[j] = i => j = k
             /\ investments[i].last_payout >= sched[1].started
             /\ investments[i].last_payout <= clock)
  /\ [][\A i \in 1..Len(investments) :
          LET before == Cardinality(PayoutIdsOf(i))
              after == Cardinality({k \in 1..Len(payouts') : payouts'[k].investment_id = i})
          IN after # before =>
                /\ after = before + 1
                /\ sched'[1].log = Append(sched[1].log, i)]_vars

\* an investment first paid two weeks or more after its start has one Payout
C9_Witness ==
  \E i \in 1..Len(investments) :
     /\ sched[1].log = <<i>>
     /\ Cardinality(PayoutIdsOf(i)) = 1
     /\ \A n \in PayoutIdsOf(i) : payouts[n].payout_date >= investments[i].start_date + 2 * Week

PayoutTransactions == SelectSeq(transactions, LAMBDA t : t.type = "payout")

\* C10: every Payout is 1% of its investment's principal (0.05, 0.1, 0.2, 0.5
\* for 5, 10, 20, 50), and the payout Transaction created with it has the same
\* amount, type payout, status completed and the investment's owner.
C10_PayoutIsOnePercent ==
  /\ \A k \in 1..Len(payouts) :
        LET inv == investments[payouts[k].investment_id]
        IN /\ payouts[k].amount * 100 = inv.amount
           /\ inv.amount = 500 => payouts[k].amount = 5
           /\ inv.amount = 1000 => payouts[k].amount = 10
           /\ inv.amount = 2000 => payouts[k].amount = 20
           /\ inv.amount = 5000 => payouts[k].amount = 50
  /\ Len(PayoutTransactions) = Len(payouts)
  /\ \A k \in 1..Len(PayoutTransactions) :
        /\ k <= Len(payouts)
        /\ PayoutTransactions[k].amount = payouts[k].amount
        /\ PayoutTransactions[k].status = "completed"
        /\ PayoutTransactions[k].user_id = investments[payouts[k].investment_id].user_id

\* user B's investment of 50 has a Payout of 0.5
C10_Witness ==
  \E k \in 1..Len(payouts) :
     /\ investments[payouts[k].investment_id].amount = 5000
     /\ investments[payouts[k].investment_id].user_id = 2
     /\ payouts[k].amount = 50

\* C11: completing a pending deposit of amount a of a user whose referred_by
\* resolves to a user R adds exactly one Transaction: a referral of 0.05 * a
\* (1.0 for a = 20) owned by R, completed, with payment method system.
C11_BonusIsFivePercentToReferrer ==
  [][\A tid \in 1..Len(transactions) :
        CompletesReferredDeposit(tid) =>
           /\ Len(AddedTransactions) = 1
           /\ LET b == AddedTransactions[1]
                  a == transactions[tid].amount
              IN /\ b.type = "referral"
                 /\ b.user_id = ReferrerOf(users[transactions[tid].user_id].referred_by)
                 /\ b.status = "completed"
                 /\ b.payment_method = "system"
                 /\ b.reference[1] = "REF"
                 /\ b.amount * 100 = 5 * a
                 /\ a = 2000 => b.amount = 100]_vars

\* the second user, referred by the first, has completed a deposit of 20 and
\* the first owns a referral Transaction of 1.0
C11_Witness ==
  /\ Len(users) = 2
  /\ users[2].referred_by = users[1].referral_code
  /\ \E d \in TransactionIds("deposit"), k \in TransactionIds("referral") :
        /\ transactions[d].user_id = 2
        /\ transactions[d].amount = 2000
        /\ transactions[d].status = "completed"
        /\ transactions[k].user_id = 1
        /\ transactions[k].amount = 100
        /\ transactions[k].payment_method = "system"

\* C12: when the depositor's referred_by is unset or matches no user's
\* referral_code, a valid POST /payment of the depositor's pending deposit
\* marks it completed with the posted method, adds no Transaction and leaves
\* every other row alone (the request does not fail).
C12_NoReferrerNoBonus ==
  \A uid \in Uids, tid \in 1..Len(transactions), m \in {"visa", "mtn"}, tok \in TokenDraws("REF") :
     (PaymentAdmits(uid, tid) /\ ReferrerOf(users[uid].referred_by) = 0) =>
        LET out == PaymentOutcome(uid, tid, m, tok)
        IN /\ Len(out) = Len(transactions)
           /\ out[tid].status = "completed"
           /\ out[tid].payment_method = m
           /\ out[tid].completed_at = clock
           /\ \A k \in 1..Len(transactions) : k # tid => out[k] = transactions[k]

\* a user whose referred_by is the code of nobody has completed a deposit, and
\* there is no referral Transaction
C12_Witness ==
  /\ TransactionIds("referral") = {}
  /\ \E d \in TransactionIds("deposit") :
        /\ transactions[d].status = "completed"
        /\ users[transactions[d].user_id].referred_by = "ZZ"

\* C13: the bonus fires once for every completed deposit of a referred user:
\* in every state, the number of referral Transactions a user owns equals the
\* number of completed deposits of the users whose referred_by resolves to
\* that user.
C13_BonusPerCompletedDeposit ==
  \A r \in Uids :
     Cardinality({k \in TransactionIds("referral") : transactions[k].user_id = r})
       = Cardinality({d \in TransactionIds("deposit") :
                        transactions[d].status = "completed" /\ ReferrerOfDeposit(d) = r})

\* C14: POST /payment changes no stored record when the transaction does not
\* exist, does not belong to the caller, is not a deposit or is not pending;
\* no step changes a Transaction row that is not a pending deposit, and a
\* referral Transaction is added only by a step that takes a deposit from
\* pending to completed: a second POST on a completed deposit changes nothing
\* and emits no bonus.
C14_RejectedPaymentChangesNothing ==
  /\ [](\A uid \in Uids, tid \in 1..(Len(transactions) + 1), m \in MethodInputs,
           tok \in TokenDraws("REF") :
          (\/ tid > Len(transactions)
           \/ transactions[tid].user_id # uid
           \/ transactions[tid].type # "deposit"
           \/ transactions[tid].status # "pending")
             => PaymentOutcome(uid, tid, m, tok) = transactions)
  /\ [][/\ \A tid \in 1..Len(transactions) :
             transactions'[tid] # transactions[tid] =>
                transactions[tid].type = "deposit" /\ transactions[tid].status = "pending"
        /\ \A n \in 1..Len(AddedTransactions) :
             AddedTransactions[n].type = "referral" =>
                \E tid \in 1..Len(transactions) :
                   /\ transactions[tid].type = "deposit"
                   /\ transactions[tid].status = "pending"
                   /\ transactions'[tid].status = "completed"]_vars

\* two users, and a completed deposit of the referred one with its single
\* bonus: a further POST on it, by its owner or by the other user, is rejected
C14_Witness ==
  /\ Len(users) = 2
  /\ \E d \in TransactionIds("deposit") :
        /\ transactions[d].status = "completed"
        /\ ReferrerOfDeposit(d) # 0
        /\ Cardinality(TransactionIds("referral")) = 1
        /\ \A uid \in Uids, m \in MethodInputs, tok \in TokenDraws("REF") :
              PaymentOutcome(uid, d, m, tok) = transactions

\* C15: POST /payment with a payment method outside {visa, mtn} fails: the
\* deposit stays pending with its method unchanged and no referral Transaction
\* (no row at all) is created.
C15_UnsupportedMethodChangesNothing ==
  \A uid \in Uids, tid \in 1..Len(transactions), m \in MethodInputs \ {"visa", "mtn"},
     tok \in TokenDraws("REF") :
     LET out == PaymentOutcome(uid, tid, m, tok)
     IN /\ Len(out) = Len(transactions)
        /\ out[tid].status = transactions[tid].status
        /\ out[tid].payment_method = transactions[tid].payment_method
        /\ out = transactions

\* a referred user's deposit is pending, so that the method check is what
\* rejects the request
C15_Witness ==
  \E d \in TransactionIds("deposit") :
     /\ transactions[d].status = "pending"
     /\ transactions[d].payment_method = "pending"
     /\ ReferrerOfDeposit(d) # 0
     /\ PaymentAdmits(transactions[d].user_id, d)
     /\ "cash" \in MethodInputs

\* C16: POST /invest succeeds only for the plan amounts 5, 10, 20 and 50 given
\* with their own plan: every step that adds an Investment or a Transaction of
\* type deposit adds one of each for such an amount, and every stored
\* Investment has one of the four amounts under its own plan.
C16_OnlyPlanAmounts ==
  /\ [](\A i \in 1..Len(investments) :
          \/ investments[i].plan = "5" /\ investments[i].amount = 500
          \/ investments[i].plan = "10" /\ investments[i].amount = 1000
          \/ investments[i].plan = "20" /\ investments[i].amount = 2000
          \/ investments[i].plan = "50" /\ investments[i].amount = 5000)
  /\ [](Cardinality(TransactionIds("deposit")) = Len(investments))
  /\ [][(\/ Len(investments') # Len(investments)
         \/ \E n \in 1..Len(AddedTransactions) : AddedTransactions[n].type = "deposit") =>
           /\ Len(investments') = Len(investments) + 1
           /\ Len(AddedTransactions) = 1
           /\ AddedTransactions[1].type = "deposit"
           /\ AddedTransactions[1].amount \in {500, 1000, 2000, 5000}
           /\ investments'[Len(investments')].amount = AddedTransactions[1].amount]_vars

\* an Investment of 50 is stored, and the forms include an amount that is no
\* plan, a plan that does not exist, and an amount of another plan
C16_Witness ==
  /\ \E i \in 1..Len(investments) : investments[i].plan = "50" /\ investments[i].amount = 5000
  /\ {<<"7", 7>>, <<"5", 10>>, <<"10", 0>>, <<"50", -5>>} \subseteq PlanInputs

\* C17: a successful POST /invest adds exactly one Investment (active,
\* last_payout unset) and exactly one pending deposit Transaction of the same
\* amount and user, and moves no funds: no Payout and no other Transaction is
\* added, no other row changes, and every user's available balance is the same
\* after as before.
C17_InvestMovesNoFunds ==
  [][Len(investments') # Len(investments) =>
       LET i == investments'[Len(investments')]
       IN /\ Len(investments') = Len(investments) + 1
          /\ SubSeq(investments', 1, Len(investments)) = investments
          /\ i.active
          /\ i.last_payout = NULL
          /\ Len(AddedTransactions) = 1
          /\ SubSeq(transactions', 1, Len(transactions)) = transactions
          /\ AddedTransactions[1].type = "deposit"
          /\ AddedTransactions[1].status = "pending"
          /\ AddedTransactions[1].amount = i.amount
          /\ AddedTransactions[1].user_id = i.user_id
          /\ payouts' = payouts
          /\ users' = users
          /\ \A u \in Uids :
                BalanceIn(u, investments', payouts', transactions') = available_balance(u)]_vars

\* a second investment has been opened while A's balance was 0.5 and B's 0.1
C17_Witness ==
  /\ Len(investments) = 2
  /\ investments[2].last_payout = NULL
  /\ investments[2].active
  /\ transactions[DepositOf(2)].status = "pending"
  /\ available_balance(1) = 50
  /\ available_balance(2) = 10

RECURSIVE SumPayoutIds(_)
SumPayoutIds(S) ==
  IF S = {} THEN 0
  ELSE LET k == CHOOSE x \in S : TRUE IN payouts[k].amount + SumPayoutIds(S \ {k})

RECURSIVE SumTransactionIds(_)
SumTransactionIds(S) ==
  IF S = {} THEN 0
  ELSE LET k == CHOOSE x \in S : TRUE IN transactions[k].amount + SumTransactionIds(S \ {k})

\* C18: the available balance of a user is the sum of the Payout amounts of
\* the investments the user owns plus the sum of the user's completed referral
\* Transaction amounts (1.0 for Payouts of 0.3 and 0.2 and a referral of 0.5,
\* whatever withdrawals are recorded), and a step that adds a withdrawal
\* Transaction leaves every user's available balance as it was.
C18_BalanceIsPayoutsPlusReferrals ==
  /\ [](\A u \in Uids :
          available_balance(u)
            = SumPayoutIds({k \in 1..Len(payouts) :
                              investments[payouts[k].investment_id].user_id = u})
              + SumTransactionIds({k \in TransactionIds("referral") :
                                     transactions[k].user_id = u /\ transactions[k].status = "completed"}))
  /\ [](BalanceIn(1, <<InvestmentRow(1, 2000, "20", 0)>>,
                  <<PayoutRow(1, 30, 7), PayoutRow(1, 20, 14)>>,
                  <<TransactionRow(1, 50, "referral", "completed", "system", <<"REF", 1>>),
                    TransactionRow(1, 40, "withdrawal", "pending", "visa", <<"WDR", 1>>),
                    TransactionRow(1, 40, "withdrawal", "completed", "mtn", <<"WDR", 2>>)>>) = 100)
  /\ [][(\E n \in 1..Len(AddedTransactions) : AddedTransactions[n].type = "withdrawal") =>
          \A u \in Uids :
             BalanceIn(u, investments', payouts', transactions') = available_balance(u)]_vars

\* A, whose balance is the bonus of 0.5, and B, whose balance is the Payout of
\* 0.1, and a withdrawal request recorded for one of them
C18_Witness ==
  /\ available_balance(1) = 50
  /\ available_balance(2) = 10
  /\ \E k \in TransactionIds("withdrawal") : transactions[k].user_id \in {1, 2}

\* A registered without referral, B with A's code; B has opened one plan of 10
\* and completed its deposit by visa; there is no other investment
JourneyMade ==
  /\ Len(users) = 2
  /\ users[1].referred_by = None
  /\ users[2].referred_by = users[1].referral_code
  /\ Len(investments) = 1
  /\ investments[1].user_id = 2
  /\ investments[1].plan = "10"
  /\ investments[1].amount = 1000
  /\ transactions[DepositOf(1)].status = "completed"
  /\ transactions[DepositOf(1)].payment_method = "visa"

\* a payout cycle that started seven days after the investment, at the current
\* reading of the clock, has reached the end of its loop
CycleAfterSevenDaysDone ==
  /\ sched[1].pc = "check"
  /\ sched[1].idx > Len(sched[1].list)
  /\ sched[1].started = clock
  /\ Len(investments) = 1
  /\ clock = investments[1].start_date + Week

\* C19: end to end: A registers without referral, B registers with A's code,
\* opens a plan of 10 and completes it by visa; then A owns exactly one
\* referral Transaction, of 0.5, and B's investment is active with last_payout
\* unset; the payout cycle run seven days later leaves exactly one Payout of
\* 0.1 for B's investment and one payout Transaction of 0.1 owned by B, the
\* available balance of B being 0.1 and that of A 0.5.
C19_JourneyOfOneInvestment ==
  JourneyMade =>
     /\ Cardinality(TransactionIds("referral")) = 1
     /\ \A k \in TransactionIds("referral") :
           /\ transactions[k].user_id = 1
           /\ transactions[k].amount = 50
           /\ transactions[k].status = "completed"
     /\ investments[1].active
     /\ available_balance(1) = 50
     /\ clock < investments[1].start_date + Week =>
           /\ investments[1].last_payout = NULL
           /\ payouts = <<>>
           /\ available_balance(2) = 0
     /\ CycleAfterSevenDaysDone =>
           /\ Len(payouts) = 1
           /\ payouts[1].investment_id = 1
           /\ payouts[1].amount = 10
           /\ Cardinality(TransactionIds("payout")) = 1
           /\ \A k \in TransactionIds("payout") :
                 /\ transactions[k].user_id = 2
                 /\ transactions[k].amount = 10
                 /\ transactions[k].status = "completed"
           /\ available_balance(2) = 10
           /\ available_balance(1) = 50

\* the whole run has been made: the cycle of the seventh day has ended and B's
\* investment has its Payout
C19_Witness ==
  /\ JourneyMade
  /\ CycleAfterSevenDaysDone
  /\ Len(payouts) = 1
  /\ transactions[DepositOf(1)].completed_at = investments[1].start_date

\* pass 1 leaves its payout cycle in this step: the loop of line 81 ends and
\* the thread goes to sleep, or an exception ends the thread
CycleEnds ==
  /\ sched[1].pc \in {"check", "write", "commit"}
  /\ sched'[1].pc \in {"sleep", "dead"}

\* C20: the scheduler loop repeats forever (payout cycle, then a suspension of
\* 24 hours), and an active investment that is due is paid no later than the
\* first cycle that starts after it became due: the thread never ends, and
\* when a cycle ends no active investment is left that was due when the cycle
\* started.
C20_DuePaidByTheNextCycle ==
  [][CycleEnds =>
       /\ sched'[1].pc = "sleep"
       /\ sched'[1].wake = clock + Day
       /\ \A i \in 1..Len(investments) :
             investments[i].active =>
                ~ IsDue(sched[1].started, investments'[i].last_payout, investments'[i].start_date)]_vars

\* C21: a Transaction's status only moves from pending to completed or from
\* pending to failed, and a completed or failed Transaction is final: no step
\* changes its status, amount, owner, payment method or completion timestamp.
C21_CompletedIsTerminal ==
  [][\A tid \in 1..Len(transactions) :
       /\ tid <= Len(transactions')
       /\ transactions'[tid].status # transactions[tid].status =>
             /\ transactions[tid].status = "pending"
             /\ transactions'[tid].status \in {"completed", "failed"}
       /\ transactions[tid].status \in {"completed", "failed"} =>
             /\ transactions'[tid].status = transactions[tid].status
             /\ transactions'[tid].amount = transactions[tid].amount
             /\ transactions'[tid].user_id = transactions[tid].user_id
             /\ transactions'[tid].payment_method = transactions[tid].payment_method
             /\ transactions'[tid].completed_at = transactions[tid].completed_at]_vars

\* C22: in every reachable state every payout and every referral Transaction
\* has status completed, and the only Transactions in status pending are
\* deposits and withdrawals.
C22_PayoutAndReferralRowsCompleted ==
  \A k \in 1..Len(transactions) :
     /\ transactions[k].type \in {"payout", "referral"} => transactions[k].status = "completed"
     /\ transactions[k].status = "pending" => transactions[k].type \in {"deposit", "withdrawal"}

\* the payout row of the first cycle and two referral rows, the second written
\* by the payment of a later deposit, next to a pending withdrawal
C22_Witness ==
  /\ \E k \in TransactionIds("payout") : transactions[k].status = "completed"
  /\ Cardinality(TransactionIds("referral")) = 2
  /\ \A k \in TransactionIds("deposit") : transactions[k].status = "completed"
  /\ \E k \in TransactionIds("withdrawal") : transactions[k].status = "pending"

\* C23: a withdrawal Transaction is created pending and no operation takes it
\* to completed: in every reachable state every withdrawal Transaction is
\* pending with no completion timestamp, a POST /payment on it by any user with
\* any method leaves the table as it is, and no step changes a withdrawal row.
C23_WithdrawalsStayPending ==
  /\ [](\A k \in TransactionIds("withdrawal") :
          /\ transactions[k].status = "pending"
          /\ transactions[k].completed_at = NULL
          /\ \A uid \in Uids, m \in MethodInputs, tok \in TokenDraws("REF") :
                PaymentOutcome(uid, k, m, tok) = transactions)
  /\ [][\A k \in TransactionIds("withdrawal") : transactions'[k] = transactions[k]]_vars

\* a withdrawal was requested, and a deposit was completed with its bonus after
\* the request
C23_Witness ==
  \E k \in TransactionIds("withdrawal"), d \in TransactionIds("deposit"),
     r \in TransactionIds("referral") :
     /\ k < r
     /\ transactions[d].status = "completed"
     /\ transactions[d].completed_at = clock
     /\ transactions[k].status = "pending"

\* C24: however registrations overlap, no two stored Users share a username
\* or an email: when two forms with the same username or email have both
\* passed the availability checks, the store rejects the INSERT of the second
\* and the user table is left as it was, without a duplicate.
C24_NoDuplicateUser ==
  /\ [](\A j, k \in 1..Len(users) :
          j # k => users[j].username # users[k].username /\ users[j].email # users[k].email)
  /\ [][\A k \in 1..Len(inflight) :
          (/\ Len(inflight') < Len(inflight)
           /\ inflight' = RemoveAt(inflight, k)
           /\ \E j \in 1..Len(users) :
                 users[j].username = inflight[k].username \/ users[j].email = inflight[k].email)
            => users' = users]_vars

\* two forms with the same username passed the checks while the table was
\* empty; the first is stored, the second stands before its INSERT
C24_Witness ==
  /\ Len(users) = 1
  /\ \E k \in 1..Len(inflight) :
        /\ inflight[k].username = users[1].username
        /\ inflight[k].email # users[1].email

\* C25: after any sequence or interleaving of the operations that create
\* Transactions (an investment, the completion of a deposit with its referral
\* bonus, a withdrawal request, a payout cycle), no two stored Transactions
\* have the same reference.
C25_ReferencesDistinct ==
  \A j, k \in 1..Len(transactions) :
     j # k => transactions[j].reference # transactions[k].reference

\* a payout cycle drew a reference that was already stored and its commit was
\* rejected; the deposit and the payout rows written before are all there
C25_Witness ==
  /\ sched[1].pc = "dead"
  /\ TransactionIds("deposit") # {}
  /\ TransactionIds("payout") # {}

\* C26: every User's referral_code is unique among all users and never changes
\* after registration; Users are never deleted, and the only field of a stored
\* User that any operation changes is last_login.
C26_UsersKeepTheirFields ==
  /\ [](\A j, k \in 1..Len(users) :
          j # k => users[j].referral_code # users[k].referral_code)
  /\ [][/\ Len(users') >= Len(users)
        /\ \A k \in 1..Len(users) :
              /\ users'[k].referral_code = users[k].referral_code
              /\ users'[k] = [users[k] EXCEPT !.last_login = users'[k].last_login]]_vars

\* two users, the second registered with the code of the first, who has
\* logged in after the second registered
C26_Witness ==
  /\ Len(users) = 2
  /\ users[2].referred_by = users[1].referral_code
  /\ users[1].last_login = Week
  /\ users[2].last_login = NULL

\* C27: in every reachable state every Investment's amount is the canonical
\* value of its plan label ('5' -> 5, '10' -> 10, '20' -> 20, '50' -> 50), and
\* no step changes the amount or the plan of a stored Investment.
C27_AmountIsThePlans ==
  /\ [](\A i \in 1..Len(investments) :
          /\ investments[i].plan \in {"5", "10", "20", "50"}
          /\ investments[i].amount =
                Cent * (CASE investments[i].plan = "5" -> 5
                          [] investments[i].plan = "10" -> 10
                          [] investments[i].plan = "20" -> 20
                          [] investments[i].plan = "50" -> 50))
  /\ [][\A i \in 1..Len(investments) :
          /\ i <= Len(investments')
          /\ investments'[i].amount = investments[i].amount
          /\ investments'[i].plan = investments[i].plan]_vars

\* an investment of plan 50 that has been paid twice: its row was written by
\* two payout passes and still holds 50
C27_Witness ==
  \E i \in 1..Len(investments) :
     /\ investments[i].plan = "50"
     /\ investments[i].amount = 50 * Cent
     /\ Cardinality(PayoutIdsOf(i)) = 2
     /\ investments[i].last_payout # NULL

\* C28: no operation clears an Investment's active flag: every Investment is
\* active in every reachable state from its creation on, and so every payout
\* pass loads every stored Investment at its query.
C28_EveryInvestmentStaysActive ==
  /\ [](\A i \in 1..Len(investments) : investments[i].active)
  /\ [][\A p \in Passes :
          (sched[p].pc = "scan" /\ sched'[p].pc = "check") =>
             /\ Len(sched'[p].list) = Len(investments)
             /\ \A i \in 1..Len(investments) : sched'[p].list[i] = i]_vars

\* a later pass has loaded an investment that an earlier pass already paid
C28_Witness ==
  /\ sched[1].pc = "check"
  /\ \E i \in 1..Len(investments) :
        /\ \E k \in PayoutIdsOf(i) : payouts[k].payout_date < sched[1].started
        /\ \E n \in 1..Len(sched[1].list) : sched[1].list[n] = i
        /\ investments[i].active

\* the Payouts of investment i written since pass 1 began its current cycle
PayoutsOfCycle(i) == {k \in PayoutIdsOf(i) : payouts[k].payout_date >= sched[1].started}

C30_SchemaBeforeCycleAndRequests ==
  /\ [](startup.pc \in {"app_run", "serving"} => startup.schema)
  /\ [](\A p \in Passes : sched[p].pc # "off" => startup.schema)
  /\ [][(\/ \E p \in Passes : sched[p].pc = "scan" /\ sched'[p].pc = "check"
         \/ users' # users
         \/ investments' # investments
         \/ transactions' # transactions
         \/ payouts' # payouts) => startup.schema]_vars

\* started on a new machine, the script has created the tables, the server has
\* registered a user and taken an investment, and the thread has paid it in a
\* cycle and gone to sleep
C30_Witness ==
  /\ startup = Serving
  /\ Len(users) >= 1
  /\ Len(payouts) >= 1
  /\ sched[1].pc = "sleep"

\* C31: the pages that read the ledger are pure: rendering the withdraw page
\* (the available balance), the dashboard (investments, recent transactions,
\* referral count) or the referrals page creates, changes or deletes no User,
\* Investment, Transaction or Payout.
C31_ReadsArePure ==
  [][view' # view =>
       /\ users' = users
       /\ investments' = investments
       /\ transactions' = transactions
       /\ payouts' = payouts]_vars

\* B's dashboard rendered on a ledger that holds B's paid investment with the
\* payout of the first cycle and a second investment of B, still unpaid
C31_Witness ==
  /\ view = DashboardView(2)
  /\ Cardinality(view.investments) = 2
  /\ Len(view.transactions) = 3
  /\ view.referral_count = 0
  /\ Len(payouts) = 1

\* a step that takes a pending deposit to completed gives the bonus to the user
\* who holds the depositor's referred_by as referral_code now, whenever that
\* user registered, and gives none when nobody holds it
BonusResolvedAtCompletion ==
  \A tid \in 1..Len(transactions) :
     (/\ transactions[tid].type = "deposit"
      /\ transactions[tid].status = "pending"
      /\ transactions'[tid].status = "completed") =>
        LET u == transactions[tid].user_id
            holders == {k \in Uids : users[k].referral_code = users[u].referred_by}
        IN IF holders # {}
           THEN /\ Len(AddedTransactions) = 1
                /\ AddedTransactions[1].type = "referral"
                /\ AddedTransactions[1].user_id \in holders
                /\ AddedTransactions[1].amount * 100 = 5 * transactions[tid].amount
           ELSE AddedTransactions = <<>>

\* C32 as stated: registration stores the supplied referral code verbatim as
\* referred_by without checking that it exists, and resolution happens only at
\* deposit completion.
C32_StoredVerbatim ==
  /\ [](\A f \in RegInputs, c \in CodeDraws, r \in FormReferralInputs :
          (/\ ~ \E k \in 1..Len(users) : users[k].username = f[1] \/ users[k].email = f[2]
           /\ ~ \E k \in 1..Len(users) : users[k].referral_code = c) =>
             LET out == RegisterOutcome(f[1], f[2], c, r)
             IN /\ Len(out) = Len(users) + 1
                /\ out[Len(out)].referred_by = IF r = "" THEN None ELSE r)
  /\ [][BonusResolvedAtCompletion]_vars

\* C32, amended: registration stores the supplied referral code with the
\* blanks at both ends removed (None when nothing is left) as referred_by
\* without checking that it exists, and resolution happens only at deposit
\* completion: a referred_by that matched no user at registration but matches
\* a user registered later yields a bonus for that user on the depositor's
\* next completed deposit.
C32_StoredStrippedResolvedLater ==
  /\ [](\A f \in RegInputs, c \in CodeDraws, r \in FormReferralInputs :
          (/\ ~ \E k \in 1..Len(users) : users[k].username = f[1] \/ users[k].email = f[2]
           /\ ~ \E k \in 1..Len(users) : users[k].referral_code = c) =>
             LET out == RegisterOutcome(f[1], f[2], c, r)
             IN /\ Len(out) = Len(users) + 1
                /\ SubSeq(out, 1, Len(users)) = users
                /\ r = "" => out[Len(out)].referred_by = None
                /\ r \in {"K1", "K2"} => out[Len(out)].referred_by = r
                /\ r = " K2 " => out[Len(out)].referred_by = "K2")
  /\ [][BonusResolvedAtCompletion]_vars

\* the first user registered with the code K2, which nobody held; the second
\* user then drew K2; the first user's deposit, completed after that, gave the
\* second user the bonus
C32_Witness ==
  /\ Len(users) = 2
  /\ users[1].referred_by = "K2"
  /\ users[2].referral_code = "K2"
  /\ \E d \in TransactionIds("deposit"), k \in TransactionIds("referral") :
        /\ transactions[d].user_id = 1
        /\ transactions[d].status = "completed"
        /\ transactions[k].user_id = 2
        /\ transactions[k].amount * 100 = 5 * transactions[d].amount

\* C33: one payout application uses a single time value: the time tested in the
\* due check, the Payout's timestamp and the investment's new last_payout are
\* equal, so that in every committed state an investment that has been paid
\* has last_payout equal to the timestamp of its most recent Payout, and no
\* step writes a Payout dated otherwise than the last_payout it commits.
C33_LastPayoutIsPayoutDate ==
  /\ [](\A i \in 1..Len(investments) :
          PayoutIdsOf(i) # {} =>
             LET k == CHOOSE x \in PayoutIdsOf(i) : \A y \in PayoutIdsOf(i) : y <= x
             IN investments[i].last_payout = payouts[k].payout_date)
  /\ [][\A k \in (Len(payouts) + 1)..Len(payouts') :
          investments'[payouts'[k].investment_id].last_payout = payouts'[k].payout_date]_vars

\* C34: a POST /payment that succeeds leaves the deposit completed, with a
\* completion timestamp and with the posted method, one of visa and mtn, and
\* with its amount, owner, type and reference as before; every deposit still
\* pending has payment method 'pending' and no completion timestamp, and every
\* completed one has a method of {visa, mtn} and a completion timestamp.
C34_CompletionSetsStatusMethodAndTime ==
  /\ [](\A uid \in Uids, tid \in 1..Len(transactions), m \in MethodInputs,
           tok \in TokenDraws("REF") :
          LET out == PaymentOutcome(uid, tid, m, tok)
          IN out # transactions =>
                /\ m \in {"visa", "mtn"}
                /\ out[tid].status = "completed"
                /\ out[tid].payment_method = m
                /\ out[tid].completed_at # NULL
                /\ out[tid].completed_at = clock
                /\ out[tid].amount = transactions[tid].amount
                /\ out[tid].user_id = transactions[tid].user_id
                /\ out[tid].type = "deposit"
                /\ out[tid].reference = transactions[tid].reference)
  /\ [](\A d \in TransactionIds("deposit") :
          IF transactions[d].status = "pending"
          THEN transactions[d].payment_method = "pending" /\ transactions[d].completed_at = NULL
          ELSE /\ transactions[d].status = "completed"
               /\ transactions[d].payment_method \in {"visa", "mtn"}
               /\ transactions[d].completed_at # NULL)

\* a deposit of 50 completed by mtn
C34_Witness ==
  \E d \in TransactionIds("deposit") :
     /\ transactions[d].status = "completed"
     /\ transactions[d].payment_method = "mtn"
     /\ transactions[d].completed_at = clock
     /\ transactions[d].amount = 50 * Cent
     /\ investments[1].amount = 50 * Cent

C36_EarlierPayoutsSurviveAFailure ==
  [][\A p \in Passes :
       (sched[p].pc = "commit" /\ sched'[p].pc = "dead") =>
          /\ payouts' = payouts
          /\ transactions' = transactions
          /\ investments' = investments
          /\ \A n \in 1..Len(sched[p].log) :
                LET i == sched[p].log[n]
                IN /\ i < sched[p].list[sched[p].idx]
                   /\ \A m \in 1..Len(sched[p].log) : m < n => sched[p].log[m] < i
                   /\ investments'[i].last_payout # NULL
                   /\ investments'[i].last_payout >= sched[p].started
                   /\ \E k \in 1..Len(payouts') :
                         /\ payouts'[k].investment_id = i
                         /\ payouts'[k].payout_date >= sched[p].started
                         /\ payouts'[k].amount = calculate_weekly_payout(investments[i])
          /\ Cardinality({k \in 1..Len(transactions') :
                            /\ transactions'[k].type = "payout"
                            /\ transactions'[k].status = "completed"}) = Len(payouts')]_vars

\* the pass has committed the payout of the first investment and stands at the
\* commit of the second, for which it can draw the reference just stored
C36_Witness ==
  /\ sched[1].pc = "commit"
  /\ sched[1].log = <<1>>
  /\ sched[1].list[sched[1].idx] = 2
  /\ RefTaken(<<"PYT", 1>>)
  /\ PayoutIdsOf(2) = {}

\* C37: no user receives a referral bonus from their own deposit, whatever
\* referral code string was supplied at registration: a step that completes a
\* deposit adds no referral Transaction owned by the depositor.
C37_NoBonusFromOwnDeposit ==
  [][\A tid \in 1..Len(transactions) :
       (/\ transactions[tid].type = "deposit"
        /\ transactions[tid].status = "pending"
        /\ transactions'[tid].status = "completed") =>
          \A n \in 1..Len(AddedTransactions) :
             AddedTransactions[n].type = "referral" =>
                AddedTransactions[n].user_id # transactions[tid].user_id]_vars

\* C38: in every reachable state each user has as many deposit Transactions as
\* Investments, amount by amount; a step adds an Investment exactly when it
\* adds a deposit Transaction, one of each with the same owner and amount, and
\* no Investment and no deposit Transaction is deleted or changes owner or amount.
C38_DepositsMatchInvestments ==
  /\ [](\A u \in Uids :
         \A a \in {investments[k].amount : k \in 1..Len(investments)}
                    \cup {transactions[k].amount : k \in 1..Len(transactions)} :
            Cardinality({k \in 1..Len(investments) :
                           investments[k].user_id = u /\ investments[k].amount = a})
              = Cardinality({k \in 1..Len(transactions) :
                               /\ transactions[k].type = "deposit"
                               /\ transactions[k].user_id = u
                               /\ transactions[k].amount = a}))
  /\ [][LET newInv == SubSeq(investments', Len(investments) + 1, Len(investments'))
            newDep == {n \in 1..Len(AddedTransactions) : AddedTransactions[n].type = "deposit"}
        IN /\ Len(investments') >= Len(investments)
           /\ Len(transactions') >= Len(transactions)
           /\ \A k \in 1..Len(investments) :
                 /\ investments'[k].user_id = investments[k].user_id
                 /\ investments'[k].amount = investments[k].amount
           /\ \A k \in 1..Len(transactions) :
                 /\ transactions'[k].type = transactions[k].type
                 /\ transactions'[k].user_id = transactions[k].user_id
                 /\ transactions'[k].amount = transactions[k].amount
           /\ Len(newInv) = Cardinality(newDep)
           /\ Len(newInv) <= 1
           /\ \A n \in newDep :
                 /\ AddedTransactions[n].user_id = newInv[1].user_id
                 /\ AddedTransactions[n].amount = newInv[1].amount]_vars

\* user 2 holds two investments of different amounts, one deposit completed
\* and one still pending, next to a payout row and a withdrawal request
C38_Witness ==
  /\ Len(investments) = 2
  /\ \A k \in 1..2 : investments[k].user_id = 2
  /\ investments[1].amount # investments[2].amount
  /\ \E k \in 1..Len(transactions) :
        transactions[k].type = "deposit" /\ transactions[k].status = "pending"
  /\ \E k \in 1..Len(transactions) :
        transactions[k].type = "deposit" /\ transactions[k].status = "completed"
  /\ \E k \in 1..Len(transactions) : transactions[k].type = "withdrawal"
  /\ \E k \in 1..Len(transactions) : transactions[k].type = "payout"

\* C39: an investment's last_payout, once set, never decreases and never
\* returns to unset, and it changes only in a commit of the payout pass; a step
\* of any request handler (one that is no step of the scheduler thread) leaves
\* every Investment's last_payout and every Payout unchanged.
C39_LastPayoutOnlyAdvancesInThePass ==
  [][LET inPass == \E p \in Passes : sched[p].pc = "commit" /\ sched'[p].pc = "check"
     IN /\ \A i \in 1..Len(investments) :
             /\ investments[i].last_payout # NULL =>
                   /\ investments'[i].last_payout # NULL
                   /\ investments'[i].last_payout >= investments[i].last_payout
             /\ investments'[i].last_payout # investments[i].last_payout => inPass
        /\ payouts' # payouts => inPass
        /\ sched' = sched =>
             /\ payouts' = payouts
             /\ \A i \in 1..Len(investments) :
                   investments'[i].last_payout = investments[i].last_payout]_vars

====
